---- MODULE Spec2Model ----
\* Model of jira-stalebot: the staleness rule evaluator (Config.IssueOperation,
\* lastUpdateAddedStaleLabel) and the batch driver (Stalebot.Run).
\*
\* Strings that the code tokenizes (changelog FromString / ToString) are
\* sequences of one-character strings, so strings.Split is computed, not assumed.
\* Times are whole seconds.
EXTENDS Integers, Sequences, FiniteSets, TLC

VARIABLES
    cfg,        \* bot.Config
    now,        \* the instant an evaluation is made for (Run: time.Now() at the start)
    issue,      \* the issue snapshot under evaluation
    op,         \* the operation IssueOperation returned for it
    opBefore,   \* the operation of the issue it was derived from (evaluator specification)
    pc,         \* position of the evaluation / of Run
    bot,        \* bot.DryRun, bot.Prompt
    tracker,    \* the issues of the project as the tracker holds them
    workflow,   \* the transitions the tracker offers for an issue
    clock,      \* the tracker's time
    chunk,      \* the page of snapshots the last search returned
    resp,       \* StartAt and Total of the last search response
    idx,        \* position of the range loop in chunk
    last,       \* Run's local last
    processed,  \* Run's local processed
    opCounts,   \* Run's local opCounts
    tID,        \* closeIssue's local tID
    calls,      \* the mutation calls of the present run, in order
    ctx,        \* the context Run was given: "live", or "done" once a signal arrived
    prompt,     \* promptToConfirm: what the reader offers on res, and what it returned
    scan,       \* the present run: keys matching at its start, keys evaluated, dispatches
    budget      \* runs, external edits and clock advances still allowed

evalVars == <<issue, op, opBefore>>
runVars == <<bot, tracker, workflow, clock, chunk, resp, idx, last, processed, opCounts,
             tID, calls, ctx, prompt, scan, budget>>
vars == <<cfg, now, issue, op, opBefore, pc, bot, tracker, workflow, clock, chunk, resp,
          idx, last, processed, opCounts, tID, calls, ctx, prompt, scan, budget>>

\* ---------------------------------------------------------------- bounds
MaxHistories == 2
MaxIssues == 2
MaxRuns == 2
MaxEdits == 1
MaxTicks == 1
\* SearchOptions.MaxResults (1000 in the code), scaled down
MaxResults == 1
\* the limitPerRun a configuration file gives
SmallLimit == 1
\* the largest total a search response reports
MaxTotal == 2

\* ---------------------------------------------------------------- constants
\* time.Hour * 24, in seconds
Day == 86400
\* the defaults of the configuration
defaultDaysUntilStale == 90
defaultDaysUntilClose == 14
defaultLimitPerRun == 100
\* the instants of the test suite, in days before now
Minus120 == 120
Minus60 == 60
\* the instant "now" of an evaluation (seconds since the zero time)
Now0 == 200 * Day

\* ---------------------------------------------------------------- strings
SP == " "
EmptyStr == << >>
StaleLabelName == <<"s">>
LabelA == <<"a">>
LabelB == <<"b">>
\* a label that has the stale label as a proper prefix
LabelSA == <<"s", "a">>

\* faulty variant: the string is not tokenized, the whole string is the only field
SplitWhole(s) == << s >>

\* strings.Split(s, " "): the fields between single spaces, empty fields kept
RECURSIVE Split(_)
Split(s) ==
    IF s = << >> THEN << << >> >>
    ELSE IF Head(s) = SP THEN << << >> >> \o Split(Tail(s))
    ELSE LET r == Split(Tail(s)) IN << <<Head(s)>> \o Head(r) >> \o Tail(r)

\* sets.NewString(items...)
NewString(items) == {items[k] : k \in DOMAIN items}

\* ---------------------------------------------------------------- operations
None == "None"
AddStaleLabel == "AddStaleLabel"
RemoveStaleLabel == "RemoveStaleLabel"
Close == "Close"
\* a nil pointer dereference inside IssueOperation (runtime panic)
Panic == "panic"
Operations == {None, AddStaleLabel, RemoveStaleLabel, Close}
\* opCounts := map[Operation]int{}
ZeroCounts == [o \in Operations |-> 0]

StatusCategoryComplete == "done"
StatusCategories == {"new", "indeterminate", StatusCategoryComplete}

\* one ChangelogItems value
Item(f, from, to) == [Field |-> f, FromString |-> from, ToString |-> to]

\* faulty variant: the previous value of the labels field is not looked at
ItemAddsStaleLabelIgnoringFrom(item, staleLabel) ==
    /\ item.Field = "labels"
    /\ staleLabel \in NewString(Split(item.ToString))

\* the item loop of lastUpdateAddedStaleLabel over one history entry
ItemAddsStaleLabel(item, staleLabel) ==
    /\ item.Field = "labels"
    /\ LET from == NewString(Split(item.FromString))
           to   == NewString(Split(item.ToString))
       IN  staleLabel \notin from /\ staleLabel \in to

\* faulty variant: the first history entry is read instead of the last
firstUpdateAddedStaleLabel(i, staleLabel) ==
    IF i.hasChangelog /\ Len(i.histories) > 0
    THEN LET firstUpdate == i.histories[1]
         IN  \E k \in DOMAIN firstUpdate : ItemAddsStaleLabel(firstUpdate[k], staleLabel)
    ELSE FALSE

lastUpdateAddedStaleLabel(i, staleLabel) ==
    IF i.hasChangelog /\ Len(i.histories) > 0
    THEN LET lastUpdate == i.histories[Len(i.histories)]
         IN  \E k \in DOMAIN lastUpdate : ItemAddsStaleLabel(lastUpdate[k], staleLabel)
    ELSE FALSE

\* faulty variant: !Before instead of After (the threshold instant counts as too recent)
UpdatedNotBefore(i, t, days) == i.updated >= t - Day * days

\* time.Time(i.Fields.Updated).After(now.Add(-time.Hour * 24 * time.Duration(days)))
UpdatedAfter(i, t, days) == i.updated > t - Day * days

\* faulty variant: every exempt label is required
HasAnyAsAll(labels, items) == \A l \in items : l \in labels
\* issueLabels.HasAny(c.ExemptLabels...)
HasAny(labels, items) == \E l \in items : l \in labels
\* faulty variant: one of the only-labels is enough
HasAllAsAny(labels, items) == \E l \in items : l \in labels
\* issueLabels.HasAll(c.OnlyLabels...)
HasAll(labels, items) == \A l \in items : l \in labels

\* faulty variant: the status category key is compared with the JQL spelling "Done"
IsCompleteJQLSpelling(i) == i.category = "Done"
\* i.Fields.Status.StatusCategory.Key == jira.StatusCategoryComplete
IsComplete(i) == i.category = StatusCategoryComplete

\* the eligibility filter of IssueOperation: TRUE when the issue is rejected
FilterRejects(c, i) ==
    IF Cardinality(c.ExemptLabels) > 0
    THEN HasAny(i.labels, c.ExemptLabels)
    ELSE HasAll(i.labels, c.OnlyLabels)

\* faulty variant: the test of lastUpdateAddedStaleLabel is negated, steps 2 and 3
\* of the lifecycle change places
IssueOperationStepsExchanged(c, t, i) ==
    IF ~i.hasFields \/ ~i.hasStatus THEN Panic
    ELSE IF IsComplete(i) THEN None
    ELSE IF FilterRejects(c, i) THEN None
    ELSE IF c.StaleLabel \notin i.labels
         THEN IF UpdatedAfter(i, t, c.DaysUntilStale) THEN None ELSE AddStaleLabel
    ELSE IF ~lastUpdateAddedStaleLabel(i, c.StaleLabel)
         THEN IF UpdatedAfter(i, t, c.DaysUntilClose) THEN None ELSE Close
    ELSE RemoveStaleLabel

\* Config.IssueOperation
IssueOperation(c, t, i) ==
    IF ~i.hasFields \/ ~i.hasStatus THEN Panic
    ELSE IF IsComplete(i) THEN None
    ELSE IF FilterRejects(c, i) THEN None
    ELSE IF c.StaleLabel \notin i.labels
         THEN IF UpdatedAfter(i, t, c.DaysUntilStale) THEN None ELSE AddStaleLabel
    ELSE IF lastUpdateAddedStaleLabel(i, c.StaleLabel)
         THEN IF UpdatedAfter(i, t, c.DaysUntilClose) THEN None ELSE Close
    ELSE RemoveStaleLabel

\* ---------------------------------------------------------------- inputs
\* history entries (one ChangelogHistory = a sequence of items)
EntryAddsStale == << Item("labels", EmptyStr, StaleLabelName) >>
EntryOtherLabels == << Item("labels", LabelA, LabelB) >>
EntryAddsStaleToOthers ==
    << Item("status", EmptyStr, StaleLabelName),
       Item("labels", LabelA, LabelA \o <<SP>> \o StaleLabelName) >>
EntryRemovesStale == << Item("labels", StaleLabelName \o <<SP>> \o LabelA, LabelA) >>
EntryKeepsStale == << Item("labels", StaleLabelName, StaleLabelName \o <<SP>> \o LabelA) >>
EntryStatusChange == << Item("status", EmptyStr, StaleLabelName) >>
EntryPrefixLabel == << Item("labels", LabelA, LabelSA) >>
EntryNoItems == << >>

HistoryEntries ==
    {EntryAddsStale, EntryOtherLabels, EntryAddsStaleToOthers, EntryRemovesStale,
     EntryKeepsStale, EntryStatusChange, EntryPrefixLabel, EntryNoItems}
\* entries that do not touch the labels field
OtherFieldEntries == {EntryStatusChange, EntryNoItems}

RECURSIVE SeqsUpTo(_, _)
SeqsUpTo(S, n) ==
    IF n = 0 THEN {<< >>}
    ELSE LET shorter == SeqsUpTo(S, n - 1)
         IN  shorter \cup {Append(q, e) : q \in {x \in shorter : Len(x) = n - 1}, e \in S}

LabelSets ==
    {{}, {StaleLabelName}, {LabelA}, {LabelA, StaleLabelName},
     {LabelA, LabelB}, {LabelA, LabelB, StaleLabelName}}
FilterSets == {{}, {LabelA}, {LabelA, LabelB}}

\* a comment body: a text and the values formatted into it
Comment(t, a) == [text |-> t, args |-> a]
NoComment == Comment("", << >>)
MarkText == Comment("mark", << >>)
UnmarkText == Comment("unmark", << >>)
CloseText == Comment("close", << >>)
UserText == Comment("user", << >>)

\* loaded configurations: the day counts are the defaults, the comments and the
\* limit are given in the file
Configs ==
    [DaysUntilStale : {defaultDaysUntilStale},
     DaysUntilClose : {defaultDaysUntilClose},
     OnlyLabels     : FilterSets,
     ExemptLabels   : FilterSets,
     StaleLabel     : {StaleLabelName},
     MarkComment    : {MarkText},
     UnmarkComment  : {UnmarkText},
     CloseStatus    : {"Closed"},
     CloseComment   : {CloseText},
     LimitPerRun    : {SmallLimit}]

\* last-updated instants around the two thresholds, the tests' instants, and the zero time
UpdatedTimes(c, t) ==
    {t - Day * c.DaysUntilStale + d : d \in {-1, 0, 1}}
    \cup {t - Day * c.DaysUntilClose + d : d \in {-1, 0, 1}}
    \cup {t, t - Day * Minus120, t - Day * Minus60, 0}

\* an issue snapshot; absent (nil) parts carry empty values
Snapshot(hf, hs, cat, ls, upd, hc, hist) ==
    [hasFields |-> hf, hasStatus |-> hs, category |-> cat, labels |-> ls,
     updated |-> upd, hasChangelog |-> hc, histories |-> hist]

Changelogs == SeqsUpTo(HistoryEntries, MaxHistories)

Snapshots(c, t) ==
    {Snapshot(TRUE, TRUE, cat, ls, upd, TRUE, h) :
        cat \in StatusCategories, ls \in LabelSets, upd \in UpdatedTimes(c, t), h \in Changelogs}
    \cup {Snapshot(TRUE, TRUE, cat, ls, upd, FALSE, << >>) :
        cat \in StatusCategories, ls \in LabelSets, upd \in UpdatedTimes(c, t)}
    \cup {Snapshot(TRUE, FALSE, "new", ls, upd, hc, << >>) :
        ls \in LabelSets, upd \in UpdatedTimes(c, t), hc \in BOOLEAN}
    \cup {Snapshot(FALSE, FALSE, "new", {}, 0, hc, << >>) : hc \in BOOLEAN}

\* ---------------------------------------------------------------- evaluator specification
\* promptToConfirm is not waiting: nothing offered on res, nothing confirmed, no error
NoPrompt == [res |-> "none", confirmed |-> FALSE, err |-> "none"]
\* no run has started: nothing matched, nothing evaluated, nothing dispatched;
\* ended: how the run that has just returned ended, prev: how the run before the
\* present one ended
NoScan == [matching |-> {}, evaluated |-> << >>, dispatched |-> 0,
           ended |-> "none", prev |-> "none"]

InitOp ==
    /\ cfg \in Configs
    /\ now = Now0
    /\ issue \in Snapshots(cfg, now)
    /\ op = "unset"
    /\ opBefore = "unset"
    /\ pc = "input"
    /\ bot = [DryRun |-> FALSE, Prompt |-> FALSE]
    /\ tracker = << >>
    /\ workflow = << >>
    /\ clock = Now0
    /\ chunk = << >>
    /\ resp = [StartAt |-> 0, Total |-> 0]
    /\ idx = 1
    /\ last = 0
    /\ processed = 0
    /\ opCounts = ZeroCounts
    /\ tID = ""
    /\ calls = << >>
    /\ ctx = "live"
    /\ prompt = NoPrompt
    /\ scan = NoScan
    /\ budget = [runs |-> 0, edits |-> 0, ticks |-> 0]

\* cfg.IssueOperation(now, issue)
Decide ==
    /\ pc = "input"
    /\ op' = IssueOperation(cfg, now, issue)
    /\ pc' = "decided"
    /\ UNCHANGED <<cfg, now, issue, opBefore>>
    /\ UNCHANGED runVars

\* the same issue with one more history entry, for a field other than labels,
\* after its present changelog; evaluated again
AppendOtherFieldEntry ==
    /\ pc = "decided"
    /\ issue.hasChangelog
    /\ \E e \in OtherFieldEntries :
          issue' = [issue EXCEPT !.histories = Append(@, e)]
    /\ opBefore' = op
    /\ op' = IssueOperation(cfg, now, issue')
    /\ pc' = "appended"
    /\ UNCHANGED <<cfg, now>>
    /\ UNCHANGED runVars

\* the same issue with the history entries before its final one taken away, or
\* replaced by one entry; evaluated again
ReplaceEarlierEntries ==
    /\ pc = "decided"
    /\ issue.hasChangelog
    /\ Len(issue.histories) > 0
    /\ \E h \in {<< >>, << EntryAddsStale >>, << EntryOtherLabels >>} :
          /\ h \o <<issue.histories[Len(issue.histories)]>> # issue.histories
          /\ issue' = [issue EXCEPT !.histories = h \o <<issue.histories[Len(issue.histories)]>>]
    /\ opBefore' = op
    /\ op' = IssueOperation(cfg, now, issue')
    /\ pc' = "replaced"
    /\ UNCHANGED <<cfg, now>>
    /\ UNCHANGED runVars

NextOp == Decide \/ AppendOtherFieldEntry \/ ReplaceEarlierEntries

SpecOp == InitOp /\ [][NextOp]_vars

\* ---------------------------------------------------------------- LoadConfig
\* defaultStaleLabel ("lifecycle-stale")
defaultStaleLabel == StaleLabelName
\* the default comments, formatted from the fields of the configuration
defaultMarkCommentFunc(c) ==
    Comment("stale, no activity for %d days; remove label %q, closure in %d days",
            << c.DaysUntilStale, c.StaleLabel, c.DaysUntilClose >>)
defaultUnmarkCommentFunc(c) ==
    Comment("recent update, no longer stale; removing stale label %q", << c.StaleLabel >>)

\* Config.setDefaults: the assignments in the order of the code, each reading the
\* configuration as the earlier ones left it
setDefaults(c) ==
    LET c1 == IF c.StaleLabel = EmptyStr THEN [c EXCEPT !.StaleLabel = defaultStaleLabel] ELSE c
        c2 == IF c1.DaysUntilStale <= 0 THEN [c1 EXCEPT !.DaysUntilStale = defaultDaysUntilStale]
              ELSE c1
        c3 == IF c2.DaysUntilClose <= 0 THEN [c2 EXCEPT !.DaysUntilClose = defaultDaysUntilClose]
              ELSE c2
        c4 == IF c3.LimitPerRun <= 0 THEN [c3 EXCEPT !.LimitPerRun = defaultLimitPerRun] ELSE c3
        c5 == IF c4.MarkComment = NoComment
              THEN [c4 EXCEPT !.MarkComment = defaultMarkCommentFunc(c4)] ELSE c4
    IN  IF c5.UnmarkComment = NoComment
        THEN [c5 EXCEPT !.UnmarkComment = defaultUnmarkCommentFunc(c5)] ELSE c5

\* Config.Validate, as far as the label filters go (the other fields are valid)
Validate(c) == ~(Cardinality(c.OnlyLabels) > 0 /\ Cardinality(c.ExemptLabels) > 0)

\* what yaml.Unmarshal makes of a configuration file: a field the file omits has
\* its zero value
FileConfigs ==
    [DaysUntilStale : {-1, 0, 7},
     DaysUntilClose : {0, 3},
     OnlyLabels     : {{}, {LabelA}},
     ExemptLabels   : {{}, {LabelA}},
     StaleLabel     : {EmptyStr, LabelB},
     MarkComment    : {NoComment, MarkText},
     UnmarkComment  : {NoComment, UnmarkText},
     CloseStatus    : {"Closed"},
     CloseComment   : {NoComment, CloseText},
     LimitPerRun    : {0, SmallLimit}]

InitLoadConfig ==
    /\ cfg \in FileConfigs
    /\ pc = "unmarshalled"
    /\ now = Now0
    /\ issue = Snapshot(FALSE, FALSE, "new", {}, 0, FALSE, << >>)
    /\ op = "unset"
    /\ opBefore = "unset"
    /\ bot = [DryRun |-> FALSE, Prompt |-> FALSE]
    /\ tracker = << >>
    /\ workflow = << >>
    /\ clock = Now0
    /\ chunk = << >>
    /\ resp = [StartAt |-> 0, Total |-> 0]
    /\ idx = 1
    /\ last = 0
    /\ processed = 0
    /\ opCounts = ZeroCounts
    /\ tID = ""
    /\ calls = << >>
    /\ ctx = "live"
    /\ prompt = NoPrompt
    /\ scan = NoScan
    /\ budget = [runs |-> 0, edits |-> 0, ticks |-> 0]

\* LoadConfig: c.setDefaults()
LoadConfigSetDefaults ==
    /\ pc = "unmarshalled"
    /\ cfg' = setDefaults(cfg)
    /\ pc' = "defaulted"
    /\ UNCHANGED <<now, evalVars>>
    /\ UNCHANGED runVars

\* LoadConfig: c.Validate(), and the return of the configuration or of the error
LoadConfigValidate ==
    /\ pc = "defaulted"
    /\ pc' = IF Validate(cfg) THEN "loaded" ELSE "invalid"
    /\ UNCHANGED <<cfg, now, evalVars>>
    /\ UNCHANGED runVars

NextLoadConfig == LoadConfigSetDefaults \/ LoadConfigValidate

SpecLoadConfig == InitLoadConfig /\ [][NextLoadConfig]_vars

\* ---------------------------------------------------------------- the tracker
Keys == 1 .. MaxIssues

\* the status category of a workflow status
CategoryOf(status) ==
    CASE status = "Open" -> "new"
      [] status = "InProgress" -> "indeterminate"
      [] status = "Closed" -> StatusCategoryComplete
\* a status name as it appears in a changelog item
StatusStr(status) ==
    CASE status = "Open" -> <<"O">>
      [] status = "InProgress" -> <<"I">>
      [] status = "Closed" -> <<"C">>

\* the tracker lists the labels of an issue in alphabetical order, space separated
LabelOrder == <<LabelA, LabelB, StaleLabelName>>
RECURSIVE Join(_)
Join(ss) ==
    IF ss = << >> THEN << >>
    ELSE IF Len(ss) = 1 THEN ss[1]
    ELSE ss[1] \o <<SP>> \o Join(Tail(ss))
LabelsInOrder(ls) ==
    LET In(l) == l \in ls IN SelectSeq(LabelOrder, In)
LabelString(ls) == Join(LabelsInOrder(ls))

\* an issue as the tracker holds it; closer: who moved it to a done status;
\* marked: the instant the bot's AddStaleLabel completed on it, 0 when that never
\* happened or the issue has been touched since
TrackerIssue(st, ls, upd, hist, cm, who) ==
    [status |-> st, labels |-> ls, updated |-> upd, histories |-> hist,
     comments |-> cm, closer |-> who, marked |-> 0]

\* the snapshot a search returns for an issue (Fields, Status and Changelog present)
SnapshotOf(ti) ==
    Snapshot(TRUE, TRUE, CategoryOf(ti.status), ti.labels, ti.updated, TRUE, ti.histories)

\* who closed the issue, "open" when its status category is not done
LiveState(ti) == IF CategoryOf(ti.status) = StatusCategoryComplete THEN ti.closer ELSE "open"

\* Issue.AddComment on the tracker: the comment is stored, the issue is updated
TrackerAddComment(tr, k, body, t) ==
    [tr EXCEPT ![k].comments = Append(@, body), ![k].updated = t, ![k].marked = 0]
\* faulty variant: the history item has the old and the new label list exchanged
TrackerSetLabelsExchanged(tr, k, ls, t) ==
    IF ls = tr[k].labels THEN tr
    ELSE [tr EXCEPT ![k].labels = ls,
                    ![k].updated = t,
                    ![k].marked = 0,
                    ![k].histories =
                        Append(@, << Item("labels", LabelString(ls), LabelString(tr[k].labels)) >>)]

\* Issue.UpdateIssue with a label delta on the tracker
TrackerSetLabels(tr, k, ls, t) ==
    IF ls = tr[k].labels THEN tr
    ELSE [tr EXCEPT ![k].labels = ls,
                    ![k].updated = t,
                    ![k].marked = 0,
                    ![k].histories =
                        Append(@, << Item("labels", LabelString(tr[k].labels), LabelString(ls)) >>)]
\* Issue.DoTransition on the tracker
TrackerSetStatus(tr, k, st, t, who) ==
    [tr EXCEPT ![k].status = st,
               ![k].updated = t,
               ![k].marked = 0,
               ![k].closer = IF CategoryOf(st) = StatusCategoryComplete THEN who ELSE "nobody",
               ![k].histories =
                   Append(@, << Item("status", StatusStr(tr[k].status), StatusStr(st)) >>)]

\* ---------------------------------------------------------------- the query
\* Config.exemptOrOnlyLabels
exemptOrOnlyLabels(c) ==
    IF Cardinality(c.ExemptLabels) > 0
    THEN << [clause |-> "labelsNotInOrEmpty", labels |-> c.ExemptLabels] >>
    ELSE IF Cardinality(c.OnlyLabels) > 0
    THEN [k \in 1 .. Len(LabelsInOrder(c.OnlyLabels)) |->
             [clause |-> "labelsEq", labels |-> {LabelsInOrder(c.OnlyLabels)[k]}]]
    ELSE << >>

\* faulty variant: the status category clause is left out of the query
EligibleIssuesQueryAnyStatus(c) ==
    << [clause |-> "project", labels |-> {}] >> \o exemptOrOnlyLabels(c)

\* Config.EligibleIssuesQuery: the AND-ed clauses (ordered by updatedDate DESC)
EligibleIssuesQuery(c) ==
    << [clause |-> "project", labels |-> {}],
       [clause |-> "statusCategoryNotDone", labels |-> {}] >> \o exemptOrOnlyLabels(c)

\* the tracker's evaluation of one clause on an issue
ClauseHolds(cl, ti) ==
    CASE cl.clause = "project" -> TRUE
      [] cl.clause = "statusCategoryNotDone" -> CategoryOf(ti.status) # StatusCategoryComplete
      [] cl.clause = "labelsNotInOrEmpty" -> ti.labels \cap cl.labels = {}
      [] cl.clause = "labelsEq" -> cl.labels \subseteq ti.labels
QueryMatches(q, ti) == \A k \in DOMAIN q : ClauseHolds(q[k], ti)

\* keys in the order "updatedDate DESC" (equal instants: by key)
Newer(tr, a, b) ==
    \/ tr[a].updated > tr[b].updated
    \/ tr[a].updated = tr[b].updated /\ a < b
RECURSIVE OrderByUpdatedDesc(_, _)
OrderByUpdatedDesc(tr, ks) ==
    IF ks = {} THEN << >>
    ELSE LET first == CHOOSE a \in ks : \A b \in ks \ {a} : Newer(tr, a, b)
         IN  <<first>> \o OrderByUpdatedDesc(tr, ks \ {first})
SearchResult(tr, q) == OrderByUpdatedDesc(tr, {k \in DOMAIN tr : QueryMatches(q, tr[k])})

Min(a, b) == IF a < b THEN a ELSE b
\* the page of a search response: MaxResults issues from StartAt on
Page(tr, q, startAt) ==
    LET all == SearchResult(tr, q)
        ks  == SubSeq(all, startAt + 1, Min(Len(all), startAt + MaxResults))
    IN  [k \in DOMAIN ks |-> [key |-> ks[k], snap |-> SnapshotOf(tr[ks[k]])]]

\* ---------------------------------------------------------------- Run

\* faulty variant: the first transition offered is taken, whatever its target
transitionIDFirstOffered(transitions, statusName) ==
    IF transitions = << >> THEN "" ELSE Head(transitions).ID

\* transitionID: the ID of the first transition to the status, "" when there is none
RECURSIVE transitionID(_, _)
transitionID(transitions, statusName) ==
    IF transitions = << >> THEN ""
    ELSE IF Head(transitions).To = statusName THEN Head(transitions).ID
    ELSE transitionID(Tail(transitions), statusName)

TransitionTarget(transitions, id) ==
    (CHOOSE k \in DOMAIN transitions : transitions[k].ID = id) 

CurKey == chunk[idx].key
\* the record of one mutation call: what the live issue and the snapshot were,
\* whether the user confirmed, and which iteration of the run made it
Call(k, what, ok) ==
    [key |-> k, call |-> what, op |-> op, ok |-> ok,
     live |-> LiveState(tracker[k]), snapDone |-> issue.category = StatusCategoryComplete,
     confirmed |-> prompt.confirmed, seq |-> Len(scan.evaluated)]

BotModes == [DryRun : BOOLEAN, Prompt : BOOLEAN]
RunConfigs ==
    {c \in Configs :
        /\ c.OnlyLabels \in {{}, {LabelA}}
        /\ c.ExemptLabels \in {{}, {LabelA}}}
Workflows ==
    { << [ID |-> "11", To |-> "InProgress"], [ID |-> "21", To |-> "Closed"] >>,
      << [ID |-> "11", To |-> "InProgress"] >> }
\* the issues a run may find: long inactive; exempt by label; marked stale a close
\* period ago; marked stale and edited since; closed by someone
InitialIssues ==
    {TrackerIssue("Open", {}, Now0 - Day * Minus120, << >>, << >>, "nobody"),
     TrackerIssue("Open", {LabelA}, Now0 - Day * Minus120, << >>, << >>, "nobody"),
     TrackerIssue("Open", {StaleLabelName}, Now0 - Day * Minus60,
                  << EntryAddsStale >>, << MarkText >>, "nobody"),
     TrackerIssue("Open", {StaleLabelName}, Now0 - Day,
                  << EntryAddsStale, EntryStatusChange >>, << MarkText >>, "nobody"),
     TrackerIssue("Closed", {StaleLabelName}, Now0 - Day * Minus120,
                  << EntryAddsStale >>, << MarkText >>, "user")}

InitRun ==
    /\ cfg \in RunConfigs
    /\ bot \in BotModes
    /\ tracker \in [Keys -> InitialIssues]
    /\ workflow \in Workflows
    /\ clock = Now0
    /\ now = Now0
    /\ issue = Snapshot(FALSE, FALSE, "new", {}, 0, FALSE, << >>)
    /\ op = "unset"
    /\ opBefore = "unset"
    /\ pc = "idle"
    /\ chunk = << >>
    /\ resp = [StartAt |-> 0, Total |-> 0]
    /\ idx = 1
    /\ last = 0
    /\ processed = 0
    /\ opCounts = ZeroCounts
    /\ tID = ""
    /\ calls = << >>
    /\ ctx = "live"
    /\ prompt = NoPrompt
    /\ scan = NoScan
    /\ budget = [runs |-> 0, edits |-> 0, ticks |-> 0]

\* the outcomes a call on the tracker can have: a request made with a context that
\* is done returns the context's error
CallOutcomes == IF ctx = "done" THEN {FALSE} ELSE BOOLEAN

\* Run is entered with a configuration that Validate rejects
RunInvalidConfig ==
    /\ pc = "idle"
    /\ budget.runs < MaxRuns
    /\ ~Validate(cfg)
    /\ budget' = [budget EXCEPT !.runs = @ + 1]
    /\ pc' = "failed"
    /\ UNCHANGED <<ctx, prompt, scan, cfg, now, evalVars, bot, tracker, workflow, clock, chunk,
                   resp, idx, last,
                   processed, opCounts, tID, calls>>

\* Run up to the paging loop
StartRun ==
    /\ pc = "idle"
    /\ budget.runs < MaxRuns
    /\ Validate(cfg)
    /\ budget' = [budget EXCEPT !.runs = @ + 1]
    /\ last' = 0
    /\ now' = clock
    /\ processed' = 0
    /\ opCounts' = ZeroCounts
    /\ calls' = << >>
    /\ chunk' = << >>
    /\ idx' = 1
    /\ pc' = "search"
    /\ ctx' = "live"
    /\ prompt' = NoPrompt
    /\ scan' = [matching |-> {k \in Keys : QueryMatches(EligibleIssuesQuery(cfg), tracker[k])},
                evaluated |-> << >>, dispatched |-> 0,
                ended |-> "none", prev |-> scan.ended]
    /\ UNCHANGED <<cfg, evalVars, bot, tracker, workflow, clock, resp, tID>>

\* bot.Client.Issue.Search(ctx, eligibleIssuesQuery, opt) with StartAt: last
Search ==
    /\ pc = "search"
    /\ \E ok \in CallOutcomes :
          IF ok
          THEN /\ chunk' = Page(tracker, EligibleIssuesQuery(cfg), last)
               /\ resp' = [StartAt |-> last,
                           Total |-> Len(SearchResult(tracker, EligibleIssuesQuery(cfg)))]
               /\ idx' = 1
               /\ pc' = "loop"
          ELSE /\ pc' = "failed"
               /\ UNCHANGED <<chunk, resp, idx>>
    /\ UNCHANGED <<ctx, prompt, scan, cfg, now, evalVars, bot, tracker, workflow, clock, last,
                   processed,
                   opCounts, tID, calls, budget>>

\* where the loop body goes once the operation is planned and confirmed
DispatchEntry(o) ==
    CASE o = AddStaleLabel -> "add_comment"
      [] o = RemoveStaleLabel -> "remove_comment"
      [] o = Close -> "close_transitions"

DispatchEntries == {"add_comment", "remove_comment", "close_transitions"}

\* one iteration of the range loop, up to the prompt or the first call of the dispatch
Evaluate ==
    /\ pc = "loop"
    /\ idx <= Len(chunk)
    /\ LET i == chunk[idx].snap
           o == IssueOperation(cfg, now, i)
       IN  /\ issue' = i
           /\ op' = o
           /\ opCounts' = [opCounts EXCEPT ![o] = @ + 1]
           /\ prompt' = NoPrompt
           /\ IF o = None THEN pc' = "loop" /\ idx' = idx + 1
              ELSE IF bot.Prompt THEN pc' = "prompt" /\ idx' = idx
              ELSE IF bot.DryRun THEN pc' = "loop" /\ idx' = idx + 1
              ELSE pc' = DispatchEntry(o) /\ idx' = idx
           /\ scan' = [scan EXCEPT
                         !.evaluated = Append(@, CurKey),
                         !.dispatched = IF pc' \in DispatchEntries THEN @ + 1 ELSE @]
    /\ UNCHANGED <<ctx, cfg, now, opBefore, bot, tracker, workflow, clock, chunk, resp, last,
                   processed, tID, calls, budget>>

\* promptToConfirm's reader goroutine: a line read from stdin is an answer it offers
\* on res ("y"/"yes", ""/"n"/"no"), a read error is offered with the error; any
\* other line makes it ask again
ReadAnswer ==
    /\ pc = "prompt"
    /\ prompt.res = "none"
    /\ \E r \in {"yes", "no", "err"} : prompt' = [prompt EXCEPT !.res = r]
    /\ UNCHANGED <<ctx, scan, cfg, now, evalVars, pc, bot, tracker, workflow, clock, chunk,
                   resp, idx, last, processed, opCounts, tID, calls, budget>>

\* promptToConfirm's select takes res and returns (true, nil)
PromptConfirmed ==
    /\ pc = "prompt"
    /\ prompt.res = "yes"
    /\ prompt' = [NoPrompt EXCEPT !.confirmed = TRUE]
    /\ IF bot.DryRun THEN pc' = "loop" /\ idx' = idx + 1
       ELSE pc' = DispatchEntry(op) /\ idx' = idx
    /\ scan' = [scan EXCEPT !.dispatched = IF bot.DryRun THEN @ ELSE @ + 1]
    /\ UNCHANGED <<ctx, cfg, now, evalVars, bot, tracker, workflow, clock, chunk, resp, last,
                   processed, opCounts, tID, calls, budget>>

\* faulty variant: the test of the answer is inverted, a declined operation goes ahead
PromptDeclinedDispatches ==
    /\ pc = "prompt"
    /\ prompt.res = "no"
    /\ prompt' = NoPrompt
    /\ IF bot.DryRun THEN pc' = "loop" /\ idx' = idx + 1
       ELSE pc' = DispatchEntry(op) /\ idx' = idx
    /\ scan' = [scan EXCEPT !.dispatched = IF bot.DryRun THEN @ ELSE @ + 1]
    /\ UNCHANGED <<ctx, cfg, now, evalVars, bot, tracker, workflow, clock, chunk, resp, last,
                   processed, opCounts, tID, calls, budget>>

\* promptToConfirm's select takes res and returns (false, nil): Run continues
PromptDeclined ==
    /\ pc = "prompt"
    /\ prompt.res = "no"
    /\ prompt' = NoPrompt
    /\ pc' = "loop"
    /\ idx' = idx + 1
    /\ UNCHANGED <<ctx, scan, cfg, now, evalVars, bot, tracker, workflow, clock, chunk, resp,
                   last, processed, opCounts, tID, calls, budget>>

\* promptToConfirm's select takes res and returns the read error: Run returns it
PromptFailed ==
    /\ pc = "prompt"
    /\ prompt.res = "err"
    /\ prompt' = [NoPrompt EXCEPT !.err = "read input from prompt"]
    /\ pc' = "failed"
    /\ UNCHANGED <<ctx, scan, cfg, now, evalVars, bot, tracker, workflow, clock, chunk, resp,
                   idx, last, processed, opCounts, tID, calls, budget>>

\* faulty variant: the select's ctx.Done case returns (false, nil), Run skips the issue
PromptCancelledSkips ==
    /\ pc = "prompt"
    /\ ctx = "done"
    /\ prompt' = NoPrompt
    /\ pc' = "loop"
    /\ idx' = idx + 1
    /\ UNCHANGED <<ctx, scan, cfg, now, evalVars, bot, tracker, workflow, clock, chunk, resp,
                   last, processed, opCounts, tID, calls, budget>>

\* promptToConfirm's select takes ctx.Done and returns (false, ctx.Err()): Run
\* returns the error. When res is ready as well, select may take either case.
PromptCancelled ==
    /\ pc = "prompt"
    /\ ctx = "done"
    /\ prompt' = [NoPrompt EXCEPT !.err = "context canceled"]
    /\ pc' = "failed"
    /\ UNCHANGED <<ctx, scan, cfg, now, evalVars, bot, tracker, workflow, clock, chunk, resp,
                   idx, last, processed, opCounts, tID, calls, budget>>

\* SIGINT or SIGTERM arrives while the process runs: signal.NotifyContext ends ctx
Cancel ==
    /\ pc \notin {"idle", "done", "failed"}
    /\ ctx = "live"
    /\ ctx' = "done"
    /\ UNCHANGED <<prompt, scan, cfg, now, evalVars, pc, bot, tracker, workflow, clock, chunk,
                   resp, idx, last, processed, opCounts, tID, calls, budget>>

\* faulty variant: the error of the comment call is dropped and the dispatch goes on
CommentCallIgnoringError(body, next, advance) ==
    /\ \E ok \in CallOutcomes :
          /\ calls' = Append(calls, Call(CurKey, "comment", ok))
          /\ pc' = next
          /\ idx' = IF advance THEN idx + 1 ELSE idx
          /\ IF ok
             THEN /\ tracker' = TrackerAddComment(tracker, CurKey, body, clock + 1)
                  /\ clock' = clock + 1
             ELSE UNCHANGED <<tracker, clock>>
    /\ UNCHANGED <<ctx, prompt, scan, cfg, now, evalVars, bot, workflow, chunk, resp, last,
                   processed, opCounts, tID, budget>>

\* a comment call of a dispatch: on success the tracker stores it and Run goes to
\* position next, on failure Run returns the error
CommentCall(body, next, advance) ==
    /\ \E ok \in CallOutcomes :
          /\ calls' = Append(calls, Call(CurKey, "comment", ok))
          /\ IF ok
             THEN /\ tracker' = TrackerAddComment(tracker, CurKey, body, clock + 1)
                  /\ clock' = clock + 1
                  /\ pc' = next
                  /\ idx' = IF advance THEN idx + 1 ELSE idx
             ELSE /\ pc' = "failed"
                  /\ UNCHANGED <<tracker, clock, idx>>
    /\ UNCHANGED <<ctx, prompt, scan, cfg, now, evalVars, bot, workflow, chunk, resp, last,
                   processed, opCounts,
                   tID, budget>>

\* an AddStaleLabel dispatch that changed the labels has completed on issue k at t
MarkedBy(tr, k, ls, t) ==
    IF op = AddStaleLabel /\ ls # tracker[k].labels THEN [tr EXCEPT ![k].marked = t] ELSE tr

\* faulty variant: a failed label update is passed over and the loop goes on
LabelCallContinues(ls) ==
    /\ \E ok \in CallOutcomes :
          /\ calls' = Append(calls, Call(CurKey, "update", ok))
          /\ pc' = "loop"
          /\ idx' = idx + 1
          /\ IF ok
             THEN /\ tracker' = TrackerSetLabels(tracker, CurKey, ls, clock + 1)
                  /\ clock' = clock + 1
             ELSE UNCHANGED <<tracker, clock>>
    /\ UNCHANGED <<ctx, prompt, scan, cfg, now, evalVars, bot, workflow, chunk, resp, last,
                   processed, opCounts, tID, budget>>

\* a label update call of a dispatch
LabelCall(ls) ==
    /\ \E ok \in CallOutcomes :
          /\ calls' = Append(calls, Call(CurKey, "update", ok))
          /\ IF ok
             THEN /\ tracker' = MarkedBy(TrackerSetLabels(tracker, CurKey, ls, clock + 1),
                                          CurKey, ls, clock + 1)
                  /\ clock' = clock + 1
                  /\ pc' = "loop"
                  /\ idx' = idx + 1
             ELSE /\ pc' = "failed"
                  /\ UNCHANGED <<tracker, clock, idx>>
    /\ UNCHANGED <<ctx, prompt, scan, cfg, now, evalVars, bot, workflow, chunk, resp, last,
                   processed, opCounts,
                   tID, budget>>

\* addStaleLabel: AddComment with the mark comment
AddStaleLabelComment ==
    /\ pc = "add_comment"
    /\ CommentCall(cfg.MarkComment, "add_update", FALSE)
\* addStaleLabel: UpdateIssue with labels add staleLabel
AddStaleLabelUpdate ==
    /\ pc = "add_update"
    /\ LabelCall(tracker[CurKey].labels \cup {cfg.StaleLabel})
\* removeStaleLabel: AddComment with the unmark comment
RemoveStaleLabelComment ==
    /\ pc = "remove_comment"
    /\ CommentCall(cfg.UnmarkComment, "remove_update", FALSE)
\* removeStaleLabel: UpdateIssue with labels remove staleLabel
RemoveStaleLabelUpdate ==
    /\ pc = "remove_update"
    /\ LabelCall(tracker[CurKey].labels \ {cfg.StaleLabel})

\* closeIssue: GetTransitions and transitionID
CloseGetTransitions ==
    /\ pc = "close_transitions"
    /\ \E ok \in CallOutcomes :
          IF ok /\ transitionID(workflow, cfg.CloseStatus) # ""
          THEN /\ tID' = transitionID(workflow, cfg.CloseStatus)
               /\ pc' = "close_transition"
          ELSE /\ pc' = "failed"
               /\ UNCHANGED tID
    /\ UNCHANGED <<ctx, prompt, scan, cfg, now, evalVars, bot, tracker, workflow, clock, chunk,
                   resp, idx, last,
                   processed, opCounts, calls, budget>>

\* closeIssue: DoTransition
CloseDoTransition ==
    /\ pc = "close_transition"
    /\ \E ok \in CallOutcomes :
          /\ calls' = Append(calls, Call(CurKey, "transition", ok))
          /\ IF ok
             THEN /\ tracker' = TrackerSetStatus(tracker, CurKey,
                                    workflow[TransitionTarget(workflow, tID)].To, clock + 1, "bot")
                  /\ clock' = clock + 1
                  /\ pc' = "close_comment"
             ELSE /\ pc' = "failed"
                  /\ UNCHANGED <<tracker, clock>>
    /\ UNCHANGED <<ctx, prompt, scan, cfg, now, evalVars, bot, workflow, chunk, resp, idx,
                   last, processed,
                   opCounts, tID, budget>>

\* faulty variant: closeIssue goes on to strip the stale label from the closed issue
CloseCommentThenUnlabel ==
    /\ pc = "close_comment"
    /\ CommentCall(cfg.CloseComment, "remove_update", FALSE)

\* closeIssue: AddComment with the close comment
CloseComment ==
    /\ pc = "close_comment"
    /\ CommentCall(cfg.CloseComment, "loop", TRUE)

\* the end of the range loop: processed, last and the loop exit test
EndOfChunk ==
    /\ pc = "loop"
    /\ idx > Len(chunk)
    /\ processed' = processed + Len(chunk)
    /\ last' = resp.StartAt + Len(chunk)
    /\ pc' = IF last' >= resp.Total THEN "done" ELSE "search"
    /\ UNCHANGED <<ctx, prompt, scan, cfg, now, evalVars, bot, tracker, workflow, clock, chunk,
                   resp, idx,
                   opCounts, tID, calls, budget>>

\* the process has ended; the schedule starts the next one
NextRun ==
    /\ pc \in {"done", "failed"}
    /\ budget.runs < MaxRuns
    /\ pc' = "idle"
    /\ scan' = [scan EXCEPT !.ended = pc]
    /\ UNCHANGED <<ctx, prompt, cfg, now, evalVars, bot, tracker, workflow, clock, chunk, resp,
                   idx, last, processed, opCounts, tID, calls, budget>>

\* ---------------------------------------------------------------- the environment
\* someone comments on an issue
UserComment ==
    /\ budget.edits < MaxEdits
    /\ \E k \in Keys :
          tracker' = TrackerAddComment(tracker, k, UserText, clock + 1)
    /\ clock' = clock + 1
    /\ budget' = [budget EXCEPT !.edits = @ + 1]
    /\ UNCHANGED <<ctx, prompt, scan, cfg, now, evalVars, pc, bot, workflow, chunk, resp, idx,
                   last, processed,
                   opCounts, tID, calls>>

\* someone closes or reopens an issue
UserSetStatus ==
    /\ budget.edits < MaxEdits
    /\ \E k \in Keys, st \in {"Open", "Closed"} :
          /\ st # tracker[k].status
          /\ tracker' = TrackerSetStatus(tracker, k, st, clock + 1, "user")
    /\ clock' = clock + 1
    /\ budget' = [budget EXCEPT !.edits = @ + 1]
    /\ UNCHANGED <<ctx, prompt, scan, cfg, now, evalVars, pc, bot, workflow, chunk, resp, idx,
                   last, processed,
                   opCounts, tID, calls>>

\* someone adds a label to an issue or removes one
UserSetLabels ==
    /\ budget.edits < MaxEdits
    /\ \E k \in Keys, l \in {LabelA, StaleLabelName} :
          tracker' = TrackerSetLabels(tracker, k,
                        IF l \in tracker[k].labels THEN tracker[k].labels \ {l}
                        ELSE tracker[k].labels \cup {l}, clock + 1)
    /\ clock' = clock + 1
    /\ budget' = [budget EXCEPT !.edits = @ + 1]
    /\ UNCHANGED <<ctx, prompt, scan, cfg, now, evalVars, pc, bot, workflow, chunk, resp, idx,
                   last, processed,
                   opCounts, tID, calls>>

\* time passes between two runs
Tick ==
    /\ pc = "idle"
    /\ budget.ticks < MaxTicks
    /\ \E d \in {cfg.DaysUntilClose, cfg.DaysUntilStale} : clock' = clock + Day * d
    /\ budget' = [budget EXCEPT !.ticks = @ + 1]
    /\ UNCHANGED <<ctx, prompt, scan, cfg, now, evalVars, pc, bot, tracker, workflow, chunk,
                   resp, idx, last,
                   processed, opCounts, tID, calls>>

NextRunSpec ==
    \/ RunInvalidConfig \/ StartRun \/ Search \/ Evaluate
    \/ ReadAnswer \/ PromptConfirmed \/ PromptDeclined \/ PromptFailed
    \/ PromptCancelled \/ Cancel
    \/ AddStaleLabelComment \/ AddStaleLabelUpdate
    \/ RemoveStaleLabelComment \/ RemoveStaleLabelUpdate
    \/ CloseGetTransitions \/ CloseDoTransition \/ CloseComment
    \/ EndOfChunk \/ NextRun
    \/ UserComment \/ UserSetStatus \/ UserSetLabels \/ Tick

SpecRun == InitRun /\ [][NextRunSpec]_vars

\* ---------------------------------------------------------------- Run against any tracker
\* The paging loop of Run, with a search capability whose successful responses are
\* arbitrary: any page of at most MaxResults issues, any total up to MaxTotal.
SearchResponses ==
    {[issues |-> is, total |-> t] :
        is \in UNION {[1 .. n -> Keys] : n \in 0 .. MaxResults}, t \in 0 .. MaxTotal}

\* bot.Client.Issue.Search(ctx, eligibleIssuesQuery, opt) returns successfully
SearchAnyResponse ==
    /\ pc = "search"
    /\ \E r \in SearchResponses :
          /\ chunk' = [n \in DOMAIN r.issues |->
                          [key |-> r.issues[n], snap |-> SnapshotOf(tracker[r.issues[n]])]]
          /\ resp' = [StartAt |-> last, Total |-> r.total]
    /\ idx' = 1
    /\ pc' = "loop"
    /\ UNCHANGED <<ctx, prompt, scan, cfg, now, evalVars, bot, tracker, workflow, clock, last,
                   processed, opCounts, tID, calls, budget>>

\* a dry run without prompting over a valid configuration
InitPaging ==
    /\ InitRun
    /\ Validate(cfg)
    /\ bot = [DryRun |-> TRUE, Prompt |-> FALSE]

NextPaging == StartRun \/ SearchAnyResponse \/ Evaluate \/ EndOfChunk

\* Run is a sequential function: as long as it has a next step it takes it, and
\* every search request is answered
SpecPaging == InitPaging /\ [][NextPaging]_vars /\ WF_vars(NextPaging)

\* ---------------------------------------------------------------- evaluator properties
\* the operation held in op is the evaluation of the issue held in issue
Evaluated == pc # "input"

WellFormed(i) == i.hasFields /\ i.hasStatus
NonTerminal(i) == WellFormed(i) /\ i.category # "done"
\* the issue is let through by the label filter of IssueOperation
Eligible(c, i) ==
    IF c.ExemptLabels # {} THEN i.labels \cap c.ExemptLabels = {}
    ELSE ~(c.OnlyLabels \subseteq i.labels)
CarriesStale(c, i) == c.StaleLabel \in i.labels
StaleThreshold == now - Day * cfg.DaysUntilStale
CloseThreshold == now - Day * cfg.DaysUntilClose

\* a history entry changes the labels field
TouchesLabels(e) == \E k \in DOMAIN e : e[k].Field = "labels"
\* label l is one of the space-separated words of s
HasToken(s, l) ==
    \E a \in 1 .. Len(s) : \E b \in a .. Len(s) :
        /\ SubSeq(s, a, b) = l
        /\ (a = 1 \/ s[a - 1] = SP)
        /\ (b = Len(s) \/ s[b + 1] = SP)
\* a history entry holds a labels change from a label list without l to one with l
EntryAdds(e, l) ==
    \E k \in DOMAIN e :
        /\ e[k].Field = "labels"
        /\ ~HasToken(e[k].FromString, l)
        /\ HasToken(e[k].ToString, l)
LabelsEntryPositions(i) == {k \in DOMAIN i.histories : TouchesLabels(i.histories[k])}
\* the most recent history entry that changes the labels field added l
LastLabelsEntryAdded(i, l) ==
    /\ i.hasChangelog
    /\ LabelsEntryPositions(i) # {}
    /\ LET k == CHOOSE m \in LabelsEntryPositions(i) : \A n \in LabelsEntryPositions(i) : n <= m
       IN  EntryAdds(i.histories[k], l)
\* the final history entry added l
FinalEntryAdded(i, l) ==
    /\ i.hasChangelog
    /\ Len(i.histories) > 0
    /\ EntryAdds(i.histories[Len(i.histories)], l)

\* C1: a non-terminal, eligible issue without the stale label gets AddStaleLabel
\* when its last update is at or before now - daysUntilStale days, and None when
\* it is at least one second after that instant.
C1_StaleBoundary ==
    (Evaluated /\ NonTerminal(issue) /\ Eligible(cfg, issue) /\ ~CarriesStale(cfg, issue))
    => /\ (issue.updated <= StaleThreshold => op = AddStaleLabel)
       /\ (issue.updated >= StaleThreshold + 1 => op = None)
C1_Witness ==
    /\ Evaluated /\ NonTerminal(issue) /\ Eligible(cfg, issue) /\ ~CarriesStale(cfg, issue)
    /\ issue.updated = StaleThreshold
    /\ op = AddStaleLabel

\* C2 (as stated): a non-terminal, eligible, stale-labeled issue whose last
\* labels-changelog entry added the stale label gets Close when its last update
\* is at or before now - daysUntilClose days, and None when it is later.
C2_Original ==
    (Evaluated /\ NonTerminal(issue) /\ Eligible(cfg, issue) /\ CarriesStale(cfg, issue)
       /\ LastLabelsEntryAdded(issue, cfg.StaleLabel))
    => /\ (issue.updated <= CloseThreshold => op = Close)
       /\ (issue.updated >= CloseThreshold + 1 => op = None)
\* C2 (amended): the same, for an issue whose final changelog history entry
\* holds a labels change that added the stale label.
C2_CloseBoundary ==
    (Evaluated /\ NonTerminal(issue) /\ Eligible(cfg, issue) /\ CarriesStale(cfg, issue)
       /\ FinalEntryAdded(issue, cfg.StaleLabel))
    => /\ (issue.updated <= CloseThreshold => op = Close)
       /\ (issue.updated >= CloseThreshold + 1 => op = None)
C2_Witness ==
    /\ Evaluated /\ NonTerminal(issue) /\ Eligible(cfg, issue) /\ CarriesStale(cfg, issue)
    /\ FinalEntryAdded(issue, cfg.StaleLabel)
    /\ Len(issue.histories) = 2
    /\ issue.updated = CloseThreshold
    /\ op = Close

\* C3: a non-terminal, eligible, stale-labeled issue whose last labels-changelog
\* entry did not add the stale label gets RemoveStaleLabel whatever its
\* last-updated instant.
C3_RemoveRegardlessOfTime ==
    (Evaluated /\ NonTerminal(issue) /\ Eligible(cfg, issue) /\ CarriesStale(cfg, issue)
       /\ ~LastLabelsEntryAdded(issue, cfg.StaleLabel))
    => op = RemoveStaleLabel
C3_Witness ==
    /\ Evaluated /\ NonTerminal(issue) /\ Eligible(cfg, issue) /\ CarriesStale(cfg, issue)
    /\ LabelsEntryPositions(issue) # {}
    /\ ~LastLabelsEntryAdded(issue, cfg.StaleLabel)
    /\ issue.updated = now
    /\ op = RemoveStaleLabel

\* C4: an issue whose status category is done gets None, whatever its labels,
\* last-updated instant, changelog and the label filter configuration.
C4_DoneIsNone ==
    (Evaluated /\ WellFormed(issue) /\ issue.category = "done") => op = None
C4_Witness ==
    /\ Evaluated /\ WellFormed(issue) /\ issue.category = "done"
    /\ CarriesStale(cfg, issue)
    /\ FinalEntryAdded(issue, cfg.StaleLabel)
    /\ issue.updated <= CloseThreshold
    /\ cfg.ExemptLabels = {} /\ ~(cfg.OnlyLabels \subseteq issue.labels)
    /\ op = None

\* C5: with exemptLabels non-empty, an issue sharing a label with exemptLabels
\* gets None.
C5_ExemptIsNone ==
    (Evaluated /\ WellFormed(issue) /\ cfg.ExemptLabels # {}
       /\ issue.labels \cap cfg.ExemptLabels # {})
    => op = None
C5_Witness ==
    /\ Evaluated /\ NonTerminal(issue) /\ cfg.ExemptLabels = {LabelA, LabelB}
    /\ issue.labels = {LabelA}
    /\ issue.updated <= StaleThreshold
    /\ op = None

\* C6: with neither exemptLabels nor onlyLabels configured, a non-terminal issue
\* without the stale label, last updated 120 days ago (daysUntilStale = 90) and
\* with no changelog gets AddStaleLabel.
C6_NoFilterAddsStale ==
    (Evaluated /\ NonTerminal(issue) /\ cfg.ExemptLabels = {} /\ cfg.OnlyLabels = {}
       /\ cfg.DaysUntilStale = 90
       /\ ~CarriesStale(cfg, issue)
       /\ issue.updated = now - Day * Minus120
       /\ issue.histories = << >>)
    => op = AddStaleLabel

\* C7: with exemptLabels empty and onlyLabels non-empty, an issue carrying all of
\* onlyLabels gets None, and an issue missing one of them is decided by the
\* stale-label rules alone.
C7_OnlyLabelsPolarity ==
    (Evaluated /\ cfg.ExemptLabels = {} /\ cfg.OnlyLabels # {})
    => /\ (WellFormed(issue) /\ cfg.OnlyLabels \subseteq issue.labels) => op = None
       /\ (NonTerminal(issue) /\ ~(cfg.OnlyLabels \subseteq issue.labels))
          => op = IF ~CarriesStale(cfg, issue)
                  THEN (IF issue.updated > StaleThreshold THEN None ELSE AddStaleLabel)
                  ELSE IF FinalEntryAdded(issue, cfg.StaleLabel)
                  THEN (IF issue.updated > CloseThreshold THEN None ELSE Close)
                  ELSE RemoveStaleLabel
C7_Witness ==
    /\ Evaluated /\ cfg.ExemptLabels = {} /\ cfg.OnlyLabels = {LabelA, LabelB}
    /\ NonTerminal(issue)
    /\ issue.labels = {LabelA}
    /\ issue.updated <= StaleThreshold
    /\ op = AddStaleLabel

\* C8 (as stated): appending history entries for other fields after the last
\* labels entry of a stale-labeled issue leaves its operation unchanged.
C8_Original ==
    (pc = "appended" /\ WellFormed(issue) /\ CarriesStale(cfg, issue)) => op = opBefore
\* C8 (amended): the operation of a stale-labeled issue depends on the changelog
\* only through its final history entry: replacing the entries before the final
\* one leaves the operation unchanged, and an issue whose final entry is for
\* another field is never closed or left alone for the close period.
C8_FinalEntryOnly ==
    /\ (pc = "replaced" /\ WellFormed(issue) /\ CarriesStale(cfg, issue)) => op = opBefore
    /\ (pc = "appended" /\ NonTerminal(issue) /\ Eligible(cfg, issue) /\ CarriesStale(cfg, issue))
       => op = RemoveStaleLabel
C8_Witness ==
    /\ pc = "replaced" /\ NonTerminal(issue) /\ Eligible(cfg, issue) /\ CarriesStale(cfg, issue)
    /\ Len(issue.histories) = 2
    /\ ~EntryAdds(issue.histories[1], cfg.StaleLabel)
    /\ op = Close /\ opBefore = Close

\* C9: IssueOperation returns one of the four operations for every snapshot,
\* also when the fields object, the status object, the changelog or the labels
\* are absent.
C9_Total ==
    Evaluated => op \in Operations

\* ---------------------------------------------------------------- run properties
\* C10 (as stated): once an issue's status category is done, no run makes a
\* comment, label update or transition call on it.
C10_Original ==
    \A j \in DOMAIN calls : calls[j].live = "open"
\* C10 (amended): no call is made for an issue whose snapshot shows status
\* category done; the one call the bot makes on an issue it has closed itself is
\* the close comment, right after the transition of the same dispatch. (Any other
\* call on a done issue is on one that someone closed after its page was fetched.)
C10_DoneNotDispatched ==
    \A j \in DOMAIN calls :
        /\ ~calls[j].snapDone
        /\ calls[j].live = "bot"
           => /\ calls[j].call = "comment"
              /\ calls[j].op = Close
              /\ j > 1
              /\ calls[j - 1].key = calls[j].key
              /\ calls[j - 1].call = "transition"
              /\ calls[j - 1].ok
C10_Witness ==
    /\ pc = "done"
    /\ \E j \in DOMAIN calls : calls[j].live = "bot" /\ calls[j].ok
    /\ \E k \in Keys : tracker[k].closer = "user" /\ CategoryOf(tracker[k].status) = "done"
                       /\ \A j \in DOMAIN calls : calls[j].key # k

\* C11: in a single run the number of operations other than None that are
\* dispatched never exceeds the configured limitPerRun.
C11_LimitPerRun ==
    scan.dispatched <= cfg.LimitPerRun

\* C12: when a call of a dispatch fails, Run returns at once: the failed call is
\* the last call of the run (it is not repeated and no call follows it), and from
\* the moment Run has failed it searches nothing, evaluates nothing and calls
\* nothing, until the next run starts.
C12_FailureEndsRun ==
    /\ [](\A j \in DOMAIN calls :
             ~calls[j].ok => j = Len(calls) /\ pc \in {"failed", "idle"})
    /\ [][pc = "failed" =>
             /\ pc' \in {"failed", "idle"}
             /\ UNCHANGED <<calls, chunk, resp, idx, last, opCounts>>
             /\ scan'.evaluated = scan.evaluated
             /\ scan'.dispatched = scan.dispatched]_vars
C12_Witness ==
    /\ pc = "failed"
    /\ calls # << >>
    /\ ~calls[Len(calls)].ok
    /\ resp.StartAt + Len(chunk) < resp.Total

\* C13: a mutation call is made for an issue only if its planned operation is
\* not None, the bot is not in dry-run mode, and either prompting is off or the
\* user confirmed that operation; an issue the user declines, and an issue of a
\* dry run, is passed over without an error and the loop goes on to the next.
C13_DispatchOnlyWhenCleared ==
    /\ [](\A j \in DOMAIN calls :
             /\ calls[j].op # None
             /\ ~bot.DryRun
             /\ ~bot.Prompt \/ calls[j].confirmed)
    /\ [][(pc = "prompt" /\ prompt.res = "no" /\ ctx = "live" /\ pc' # "prompt")
             => pc' = "loop" /\ idx' = idx + 1 /\ calls' = calls]_vars
    /\ [][(bot.DryRun /\ Len(scan'.evaluated) > Len(scan.evaluated) /\ ~bot.Prompt)
             => pc' = "loop" /\ idx' = idx + 1 /\ calls' = calls]_vars
    /\ [][(bot.DryRun /\ pc = "prompt" /\ prompt.res = "yes" /\ ctx = "live"
             /\ pc' # "prompt")
             => pc' = "loop" /\ idx' = idx + 1 /\ calls' = calls]_vars
C13_Witness ==
    /\ pc = "done"
    /\ bot.Prompt
    /\ \E j \in DOMAIN calls : calls[j].confirmed /\ calls[j].ok
    /\ opCounts[None] + scan.dispatched < Len(scan.evaluated)

\* C14: a dispatch of AddStaleLabel or RemoveStaleLabel first posts its comment
\* and then sends the label update; the update is sent only after the comment of
\* the same dispatch succeeded, and it is the last call of that dispatch.
C14_CommentThenLabel ==
    \A j \in DOMAIN calls :
        calls[j].op \in {AddStaleLabel, RemoveStaleLabel} =>
            /\ calls[j].call \in {"comment", "update"}
            /\ calls[j].call = "comment" => (j = 1 \/ calls[j - 1].seq # calls[j].seq)
            /\ calls[j].call = "update" =>
                  /\ j > 1
                  /\ calls[j - 1].seq = calls[j].seq
                  /\ calls[j - 1].call = "comment"
                  /\ calls[j - 1].ok
                  /\ \A n \in DOMAIN calls : n > j => calls[n].seq # calls[j].seq
C14_Witness ==
    /\ pc = "done"
    /\ \E j \in DOMAIN calls :
          calls[j].op = AddStaleLabel /\ calls[j].call = "update" /\ calls[j].ok
    /\ \E j \in DOMAIN calls :
          calls[j].op = RemoveStaleLabel /\ calls[j].call = "update" /\ calls[j].ok

\* C15: a dispatch of Close executes the transition whose target status is
\* closeStatus and then posts the close comment, which is sent only after the
\* transition of the same dispatch succeeded; when no transition offered targets
\* closeStatus the dispatch fails and makes no transition and no comment call.
C15_CloseOrder ==
    /\ pc = "close_transition" =>
          \E n \in DOMAIN workflow : workflow[n].ID = tID /\ workflow[n].To = cfg.CloseStatus
    /\ (\A n \in DOMAIN workflow : workflow[n].To # cfg.CloseStatus) =>
          /\ \A j \in DOMAIN calls : calls[j].op # Close
          /\ pc \notin {"close_transition", "close_comment"}
    /\ \A j \in DOMAIN calls :
          calls[j].op = Close =>
              /\ calls[j].call \in {"transition", "comment"}
              /\ calls[j].call = "transition" => (j = 1 \/ calls[j - 1].seq # calls[j].seq)
              /\ calls[j].call = "comment" =>
                    /\ j > 1
                    /\ calls[j - 1].seq = calls[j].seq
                    /\ calls[j - 1].call = "transition"
                    /\ calls[j - 1].ok
                    /\ \A n \in DOMAIN calls : n > j => calls[n].seq # calls[j].seq
C15_Witness ==
    /\ pc = "done"
    /\ \E j \in DOMAIN calls :
          /\ calls[j].op = Close /\ calls[j].call = "comment" /\ calls[j].ok
          /\ tracker[calls[j].key].status = cfg.CloseStatus
          /\ tracker[calls[j].key].comments # << >>
          /\ tracker[calls[j].key].comments[Len(tracker[calls[j].key].comments)]
                = cfg.CloseComment

\* how many members of the sequence s satisfy being equal to x
CountOf(s, x) == Cardinality({n \in DOMAIN s : s[n] = x})
\* how many history entries of the tracker issue added (removed) the stale label
CountAdds(ti) ==
    Cardinality({n \in DOMAIN ti.histories :
        \E m \in DOMAIN ti.histories[n] :
            /\ ti.histories[n][m].Field = "labels"
            /\ HasToken(ti.histories[n][m].ToString, cfg.StaleLabel)
            /\ ~HasToken(ti.histories[n][m].FromString, cfg.StaleLabel)})
CountRemoves(ti) ==
    Cardinality({n \in DOMAIN ti.histories :
        \E m \in DOMAIN ti.histories[n] :
            /\ ti.histories[n][m].Field = "labels"
            /\ ~HasToken(ti.histories[n][m].ToString, cfg.StaleLabel)
            /\ HasToken(ti.histories[n][m].FromString, cfg.StaleLabel)})

\* C16: running again after a run that failed part-way brings every issue to the
\* tracker state a dispatch without failure leaves: once a run has finished with
\* no failed call, an issue has one mark comment for each time the stale label
\* was added, one unmark comment for each time it was removed, and one close
\* comment when the bot closed it. (Stated for runs that dispatch whatever they
\* plan, with nobody else editing the issues.)
C16_RerunIdempotent ==
    (/\ pc = "done"
     /\ ~bot.DryRun /\ ~bot.Prompt
     /\ budget.edits = 0
     /\ \A j \in DOMAIN calls : calls[j].ok)
    => \A k \in Keys :
          /\ CountOf(tracker[k].comments, cfg.MarkComment) = CountAdds(tracker[k])
          /\ CountOf(tracker[k].comments, cfg.UnmarkComment) = CountRemoves(tracker[k])
          /\ tracker[k].closer = "bot" => CountOf(tracker[k].comments, cfg.CloseComment) = 1

\* C17: with prompting on, when the context is done while promptToConfirm waits
\* and the reader has no answer to deliver, promptToConfirm returns the context's
\* error, Run returns an error, and the operation the prompt was about is not
\* dispatched: no call is made.
C17_CancelledPrompt ==
    [][(pc = "prompt" /\ ctx = "done" /\ prompt.res = "none" /\ pc' # "prompt")
         => /\ pc' = "failed"
            /\ prompt'.err = "context canceled"
            /\ calls' = calls
            /\ scan'.dispatched = scan.dispatched]_vars
C17_Witness ==
    /\ pc = "failed"
    /\ bot.Prompt /\ ~bot.DryRun
    /\ ctx = "done"
    /\ prompt.err = "context canceled"
    /\ op # None
    /\ calls = << >>
    /\ scan.dispatched = 0

\* C18: once the defaults are applied the three comment templates (markComment,
\* unmarkComment, closeComment) are all non-empty, whether or not the
\* configuration file gives them.
C18_CommentsDefaulted ==
    pc \in {"defaulted", "loaded"} =>
        /\ cfg.MarkComment # NoComment
        /\ cfg.UnmarkComment # NoComment
        /\ cfg.CloseComment # NoComment

\* C19: in a run that finishes without error every issue that matched the query
\* when the run started is evaluated exactly once, also when the run's own
\* operations change the result set between two page requests. (Stated for runs
\* during which nobody else edits an issue.)
C19_EveryMatchOnce ==
    (pc = "done" /\ budget.edits = 0) =>
        \A k \in scan.matching : CountOf(scan.evaluated, k) = 1

\* C20: Run terminates: whatever successful responses the searches get, with
\* finite totals, the paging loop makes finitely many search calls and Run returns.
C20_RunTerminates ==
    (pc = "search") ~> (pc \in {"done", "failed"})

\* the labels of the issue satisfy the label clauses of EligibleIssuesQuery
LabelClausesHold(c, i) ==
    \A k \in DOMAIN exemptOrOnlyLabels(c) : ClauseHolds(exemptOrOnlyLabels(c)[k], i)

\* C21: the query and the evaluator agree on the label filter: under a valid
\* configuration a non-terminal issue whose labels satisfy the label clauses of
\* EligibleIssuesQuery, without the stale label and not updated for
\* daysUntilStale days, gets AddStaleLabel. (Stated for configurations that set
\* exemptLabels or onlyLabels; the filter of a configuration that sets neither
\* is C6.)
C21_QueryAgreesWithEvaluator ==
    (/\ Evaluated
     /\ Validate(cfg)
     /\ cfg.ExemptLabels # {} \/ cfg.OnlyLabels # {}
     /\ NonTerminal(issue)
     /\ LabelClausesHold(cfg, issue)
     /\ ~CarriesStale(cfg, issue)
     /\ issue.updated <= StaleThreshold)
    => op = AddStaleLabel

\* the issue evaluated last in the present run
LastEvaluated == scan.evaluated[Len(scan.evaluated)]

\* C22: once the bot's own AddStaleLabel dispatch has completed on an issue and
\* nothing has touched the issue since, an evaluation of it returns None as long
\* as fewer than daysUntilClose days have passed since the marking, and Close
\* from then on; it does not return RemoveStaleLabel.
C22_OwnMarkNotActivity ==
    (/\ scan.evaluated # << >>
     /\ tracker[LastEvaluated].marked > 0
     /\ issue = SnapshotOf(tracker[LastEvaluated]))
    => op = IF now < tracker[LastEvaluated].marked + Day * cfg.DaysUntilClose
            THEN None ELSE Close
C22_Witness ==
    /\ scan.evaluated # << >>
    /\ tracker[LastEvaluated].marked > 0
    /\ issue = SnapshotOf(tracker[LastEvaluated])
    /\ op = Close
    /\ now = tracker[LastEvaluated].marked + Day * cfg.DaysUntilClose

\* C23: a run started right after a run that completed without error, with the
\* same configuration and nothing else touching the issues or the clock moving
\* on in between, evaluates every issue to None and dispatches nothing. (Stated
\* for runs that dispatch what they plan: no dry run, no prompt.)
C23_RunIsFixpoint ==
    (/\ scan.prev = "done"
     /\ ~bot.DryRun /\ ~bot.Prompt
     /\ budget.edits = 0 /\ budget.ticks = 0)
    => /\ opCounts[AddStaleLabel] = 0
       /\ opCounts[RemoveStaleLabel] = 0
       /\ opCounts[Close] = 0
       /\ scan.dispatched = 0

\* C24: whenever IssueOperation returns Close the issue is non-terminal, carries
\* the stale label, its final history entry holds a labels change from a list
\* without the stale label to one with it, and its last update is at least
\* daysUntilClose days before now.
C24_CloseOnlyWhenRotten ==
    (Evaluated /\ op = Close)
    => /\ NonTerminal(issue)
       /\ CarriesStale(cfg, issue)
       /\ FinalEntryAdded(issue, cfg.StaleLabel)
       /\ issue.updated <= CloseThreshold
C24_Witness ==
    /\ Evaluated
    /\ op = Close
    /\ issue.labels = {LabelA, StaleLabelName}
    /\ issue.histories # << >>
    /\ issue.histories[Len(issue.histories)] = EntryAddsStaleToOthers
    /\ issue.updated < CloseThreshold

====
